---- MODULE Spec2Model ----
(***************************************************************************)
(* suitcase.tiff_series: the Serializer document router and the export     *)
(* driver (src/suitcase/tiff_series/__init__.py), with the artifact        *)
(* manager and the TiffWriter objects it drives.                           *)
(*                                                                         *)
(* Strings are TLA+ strings, so that file names are composed character by  *)
(* character as the f-string of Serializer.event composes them.  A python  *)
(* dict that is tested for truthiness or indexed by a template is a set of *)
(* <<key, value>> pairs; the ordered dict doc['data'] is a sequence.       *)
(***************************************************************************)
EXTENDS Integers, Sequences, FiniteSets, TLC

\* ------------------------------------------------------------------ bounds

\* Documents fed to one router by the wide driver profile (every document; an
\* event page counts one per row).
MaxDocs == 3
\* Documents fed to one router by the mixed driver profile (two streams, images).
MaxMixedDocs == 5
\* Documents fed to one router by the long driver profile (a single stream).
MaxLongDocs == 13
\* Rows of one event page.
MaxRows == 2
\* Documents fed to one router by the tight driver profile (a medium that fills up).
MaxTightDocs == 5
\* Frames the medium of the tight profile can take.
TightCapacity == 2
\* Reads of Serializer.artifacts by the caller of one router.
MaxReads == 3

\* ------------------------------------------------------------- input sets

Uids == {"abc", "xyz"}
DescriptorUids == {"d1", "d2"}
StreamNames == {"primary", "primary-det"}
FieldNames == {"det", "det-det"}

\* An array value is modelled by its shape; numpy.asarray(img).ndim is the
\* length of the shape.
Shapes == {<<5>>, <<5, 5>>, <<2, 5, 5>>}

\* An unfilled field holds a datum reference (a string): a 0-d array.
DatumRef == << >>

Ndim(img) == Len(img)

\* ----------------------------------------------------- file_prefix templates

Lit(text) == [kind |-> "lit", text |-> text]
Fld(arg, acc, key) == [kind |-> "field", arg |-> arg, acc |-> acc, key |-> key]

\* '{start.uid}-', the default of export().
ExportDefaultPrefix == <<Fld("start", "attr", "uid"), Lit("-")>>

\* '{uid}-', the default of Serializer.__init__().
SerializerDefaultPrefix == <<Fld("uid", "none", ""), Lit("-")>>

\* '{start[uid]}-', '{descriptor[name]}_' and 'scan_', given by the caller.
ItemPrefix == <<Fld("start", "item", "uid"), Lit("-")>>
DescPrefix == <<Fld("descriptor", "item", "name"), Lit("_")>>
LitPrefix == <<Lit("scan_")>>

\* The file_prefix argument: absent (<< >>), or <<template>>.
PrefixArgs == {<< >>, <<ItemPrefix>>, <<DescPrefix>>, <<LitPrefix>>}

\* ------------------------------------------------------------- documents

\* dict lookups on a set of <<key, value>> pairs.
Keys(items) == {kv[1] : kv \in items}
Lookup(items, key) == (CHOOSE kv \in items : kv[1] = key)[2]

\* A start document: any dict; the model gives it at most the key 'uid'.
StartDocs == {{}} \cup {{<<"uid", u>>} : u \in Uids}

DescriptorDocs == [uid : DescriptorUids, name : StreamNames]

\* One field of an event: its name, its value and its entry in doc['filled'].
Cells == [img : Shapes, filled : {TRUE}] \cup [img : {DatumRef}, filled : {FALSE}]
Item(f, c) == [field |-> f, img |-> c.img, filled |-> c.filled]

\* The cells of the events of two fields and of the event pages.
PageCells == {c \in Cells : c.img # <<2, 5, 5>>}

\* doc['data'] of an event, in its iteration order: one field, or two.
DataLists == {<<Item(f, c)>> : f \in FieldNames, c \in Cells}
PairLists == {<<Item("det", c1), Item("det-det", c2)>> : c1 \in PageCells, c2 \in PageCells}

EventDocs == [descriptor : DescriptorUids, seq_num : {1}, data : DataLists \cup PairLists]

\* An event page holds its rows column-wise: one column per field.
Column(f, cs) ==
    [field |-> f, imgs |-> [i \in DOMAIN cs |-> cs[i].img],
     filled |-> [i \in DOMAIN cs |-> cs[i].filled]]

CellRows == UNION {[1..k -> PageCells] : k \in 1..MaxRows}

EventPageDocs ==
    {[descriptor |-> d, seq_num |-> [i \in DOMAIN cs |-> i], data |-> <<Column(f, cs)>>] :
        d \in DescriptorUids, f \in {"det"}, cs \in CellRows}

Image == [img |-> <<5, 5>>, filled |-> TRUE]

\* The documents of the long profile: one run, one stream, one image field.
LongStartDocs == {{<<"uid", "abc">>}}
LongDescriptorDocs == {[uid |-> "d1", name |-> "primary"]}
LongEventDocs == {[descriptor |-> "d1", seq_num |-> 1, data |-> <<Item("det", Image)>>]}

\* The documents of the mixed profile: one run, two descriptors that share a
\* stream name or whose stream names and fields compose to the same text,
\* events of one image.
MixedStartDocs == {{<<"uid", "xyz">>}}
MixedDescriptorDocs ==
    {[uid |-> "d1", name |-> "primary"], [uid |-> "d2", name |-> "primary"],
     [uid |-> "d2", name |-> "primary-det"]}
MixedEventDocs ==
    {[descriptor |-> d, seq_num |-> 1, data |-> <<Item(f, Image)>>] :
        d \in DescriptorUids, f \in FieldNames}

\* The documents of the tight profile: one run, one stream, events of one image
\* or of two, written to a medium that takes TightCapacity frames.
TightEventDocs ==
    LongEventDocs \cup
    {[descriptor |-> "d1", seq_num |-> 1,
      data |-> <<Item("det", Image), Item("det-det", Image)>>]}

Profiles == {"wide", "mixed", "long", "tight"}

DocLimit(p) ==
    CASE p = "wide" -> MaxDocs [] p = "mixed" -> MaxMixedDocs [] p = "long" -> MaxLongDocs
      [] p = "tight" -> MaxTightDocs

StartDocsOf(p) ==
    CASE p = "wide" -> StartDocs [] p = "mixed" -> MixedStartDocs
      [] p \in {"long", "tight"} -> LongStartDocs

DescriptorDocsOf(p) ==
    CASE p = "wide" -> DescriptorDocs [] p = "mixed" -> MixedDescriptorDocs
      [] p \in {"long", "tight"} -> LongDescriptorDocs

EventDocsOf(p) ==
    CASE p = "wide" -> EventDocs [] p = "mixed" -> MixedEventDocs [] p = "long" -> LongEventDocs
      [] p = "tight" -> TightEventDocs

\* **kwargs of Serializer(...): option names and values, in the order given.
NoKwargs == << >>
Kwargs == <<<<"compress", 6>>, <<"resolution", 300>>>>

KwargsOf(p) == IF p \in {"mixed", "tight"} THEN Kwargs ELSE NoKwargs

\* Reads of Serializer.artifacts the caller of a profile may make: none in
\* the mixed and long profiles.
ReadLimit(p) == IF p \in {"wide", "tight"} THEN MaxReads ELSE 0

\* Frames the medium behind the manager can take when the router is
\* constructed: more than the documents of the profile hold, except in the
\* tight profile.
CapacityOf(p) == IF p = "tight" THEN TightCapacity ELSE 2 * DocLimit(p)

\* ------------------------------------------------------------------ state

VARIABLES
    mode,                   \* "export": driven by export(); "direct": the caller drives the Serializer
    profile,                \* which documents the driver feeds: "wide", "mixed" or "long"
    file_prefix,            \* self._file_prefix
    kwargs,                 \* self._kwargs
    start,                  \* self._start
    descriptors,            \* self._descriptors
    counter,                \* self._counter, keyed by <<streamname, field>>
    tiff_writers,           \* self._tiff_writers, in insertion order
    templated_file_prefix,  \* self._templated_file_prefix
    tws,                    \* the TiffWriter objects constructed so far
    artifacts,              \* self._manager.artifacts: label -> names, in opening order
    manager_closed,         \* whether self._manager.close() has run
    capacity,               \* frames the medium behind the manager can still take
    pc,                     \* "running", "failed" (an exception is leaving export's with block), "closed"
    nDocs,                  \* documents fed so far, an event page counting one per row
    last,                   \* the last call: its kind, document, error, manager.open requests, close trace
    emitted,                \* history: each num read from the counter table, with its key
    eligible,               \* history: the 2-dimensional fields of the events fed, with their stream
    nRaised,                \* history: calls that raised
    nStarts,                \* history: start documents that reached Serializer.start
    firstStart,             \* history: << >>, or <<the first start document>>
    seen,                   \* what the caller got from Serializer.artifacts, read by read
    pending,                \* the exception leaving export's with block ("none": none)
    outcome,                \* export's outcome: "none" (not over), "returned", or the exception raised
    nClosed                 \* history: calls of Serializer.close

config == <<mode, profile, file_prefix, kwargs>>
router == <<start, descriptors, counter, tiff_writers, templated_file_prefix>>
world == <<tws, artifacts, manager_closed, capacity>>
history == <<pc, nDocs, last, emitted, eligible, nRaised, nStarts, firstStart>>
caller == <<seen, pending, outcome, nClosed>>
vars == <<config, router, world, history, caller>>

\* ------------------------------------------------------- str.format, str(int)

Digit == <<"0", "1", "2", "3", "4", "5", "6", "7", "8", "9">>

\* Str keeping only the last digit.
StrLastDigit(n) == Digit[(n % 10) + 1]

\* f'{num}' of a non-negative int.
RECURSIVE Str(_)
Str(n) == IF n < 10 THEN Digit[n + 1] ELSE Str(n \div 10) \o Digit[(n % 10) + 1]

\* The keyword arguments of self._file_prefix.format(start=, descriptor=, event=),
\* each a dict.
KwArgs == {"start", "descriptor", "event"}

KwArg(arg, st, descriptor, doc) ==
    CASE arg = "start" -> st
      [] arg = "descriptor" -> {<<"uid", descriptor.uid>>, <<"name", descriptor.name>>}
      [] arg = "event" -> {<<"descriptor", doc.descriptor>>}

\* One replacement field: '{arg}', '{arg.key}' or '{arg[key]}'.
FormatField(seg, st, descriptor, doc) ==
    IF seg.arg \notin KwArgs THEN [err |-> "KeyError", text |-> ""]
    ELSE LET d == KwArg(seg.arg, st, descriptor, doc) IN
         CASE seg.acc = "attr" -> [err |-> "AttributeError", text |-> ""]
           [] seg.acc = "item" ->
                IF seg.key \in Keys(d) THEN [err |-> "none", text |-> Lookup(d, seg.key)]
                ELSE [err |-> "KeyError", text |-> ""]
           [] OTHER -> [err |-> "none", text |-> "{...}"]

RECURSIVE FormatFrom(_, _, _, _, _, _)
FormatFrom(template, i, acc, st, descriptor, doc) ==
    IF i > Len(template) THEN [err |-> "none", text |-> acc]
    ELSE IF template[i].kind = "lit"
         THEN FormatFrom(template, i + 1, acc \o template[i].text, st, descriptor, doc)
         ELSE LET r == FormatField(template[i], st, descriptor, doc) IN
              IF r.err # "none" THEN r
              ELSE FormatFrom(template, i + 1, acc \o r.text, st, descriptor, doc)

Format(template, st, descriptor, doc) == FormatFrom(template, 1, "", st, descriptor, doc)

\* ------------------------------------------------------ the artifact manager

\* Every name the manager has registered, under any label.
RegisteredNames(art) == UNION {{art[l][i] : i \in DOMAIN art[l]} : l \in DOMAIN art}

\* manager.open(label, name, how): exclusive creation fails on a registered
\* name; a name opened successfully is appended to artifacts[label].
ManagerOpen(art, label, name, how) ==
    IF how = "xb" /\ name \in RegisteredNames(art)
    THEN [err |-> "FileExistsError", artifacts |-> art]
    ELSE [err |-> "none",
          artifacts |-> [l \in DOMAIN art \cup {label} |->
                            IF l = label
                            THEN Append(IF l \in DOMAIN art THEN art[l] ELSE << >>, name)
                            ELSE art[l]]]

\* ------------------------------------------------------------ the Serializer

\* What a handler works on: the Serializer's fields, the objects it reaches,
\* the requests it made of the manager during this call, and the exception it
\* raised ("none": it returned).
Cur ==
    [start |-> start, descriptors |-> descriptors, counter |-> counter,
     tiff_writers |-> tiff_writers, templated_file_prefix |-> templated_file_prefix,
     tws |-> tws, artifacts |-> artifacts, capacity |-> capacity, emitted |-> emitted,
     requests |-> << >>, err |-> "none"]

Raise(s, e) == [s EXCEPT !.err = e]

\* Serializer.start
Start(s, doc) ==
    IF s.start # {}
    THEN Raise(s, "RuntimeError")
    ELSE [s EXCEPT !.start = doc]

\* Descriptor refusing a stream name that another descriptor already has.
DescriptorUniqueName(s, doc) ==
    IF \E u \in DOMAIN s.descriptors \ {doc.uid} : s.descriptors[u].name = doc.name
    THEN Raise(s, "ValueError")
    ELSE [s EXCEPT !.descriptors =
            [u \in DOMAIN s.descriptors \cup {doc.uid} |->
                IF u = doc.uid THEN doc ELSE s.descriptors[u]]]

\* Serializer.descriptor
Descriptor(s, doc) ==
    [s EXCEPT !.descriptors =
        [u \in DOMAIN s.descriptors \cup {doc.uid} |->
            IF u = doc.uid THEN doc ELSE s.descriptors[u]]]

\* VerifyFilled looking at nothing.
VerifyFilledSkipped(doc) == TRUE

\* event_model.verify_filled(event_model.pack_event_page(doc))
VerifyFilled(doc) == \A i \in DOMAIN doc.data : doc.data[i].filled

\* self._counter.get(streamname, {}).get(field): {} for None, {n} for n.
CounterGet(c, streamname, field) ==
    IF <<streamname, field>> \in DOMAIN c THEN {c[<<streamname, field>>]} ELSE {}

Truthy(got) == got # {} /\ got # {0}

CounterPut(c, streamname, field, n) ==
    [k \in DOMAIN c \cup {<<streamname, field>>} |->
        IF k = <<streamname, field>> THEN n ELSE c[k]]

\* CounterStep with the presence test reduced to a truthiness test: a stored 0
\* reads as absent.
CounterStepTruthy(c, streamname, field) ==
    IF ~Truthy(CounterGet(c, streamname, field))
    THEN CounterPut(c, streamname, field, 0)
    ELSE CounterPut(c, streamname, field, c[<<streamname, field>>] + 1)

\* The counter of one eligible occurrence: 0 for a new key, else one more.
CounterStep(c, streamname, field) ==
    LET got == CounterGet(c, streamname, field) IN
    IF ~(Truthy(got) \/ got = {0})
    THEN CounterPut(c, streamname, field, 0)
    ELSE CounterPut(c, streamname, field, c[<<streamname, field>>] + 1)

\* f'{self._templated_file_prefix}{streamname}-{field}-{num}.tiff'
Filename(prefix, streamname, field, num) ==
    prefix \o streamname \o "-" \o field \o "-" \o Str(num) \o ".tiff"

\* WriterKey without the counter: one writer slot per field.
WriterKeyNoCounter(field, num) == field

\* field+f'-{num}', the key of the writer in self._tiff_writers[streamname].
WriterKey(field, num) == field \o "-" \o Str(num)

\* self._tiff_writers[streamname][key] = tw: a dict keeps the place of a key
\* it already holds.
WritersPut(ws, streamname, key, tw) ==
    IF \E i \in DOMAIN ws : ws[i].stream = streamname /\ ws[i].key = key
    THEN [i \in DOMAIN ws |->
            IF ws[i].stream = streamname /\ ws[i].key = key
            THEN [ws[i] EXCEPT !.tw = tw] ELSE ws[i]]
    ELSE Append(ws, [stream |-> streamname, key |-> key, tw |-> tw])

\* The label and the mode Serializer.event opens its files with.
OpenLabel == "stream_data"
OpenMode == "xb"

\* IsImage with the test loosened to "at least 2 dimensions".
IsImageOrStack(img) == Ndim(img) >= 2

\* Whether Serializer.event exports a field.
IsImage(img) == Ndim(img) = 2

\* tw.save(img_asarray, *self._kwargs): what the call passes.  Unpacking a
\* dict with one star passes its keys, in order, as positional arguments.
SaveArgs(img, kw) ==
    [positional |-> <<img>> \o [i \in DOMAIN kw |-> kw[i][1]], named |-> {}]

\* The body of the loop of Serializer.event for one field.
EventField(s, descriptor, doc, item) ==
    IF ~IsImage(item.img) THEN s
    ELSE
    LET streamname == descriptor.name
        field == item.field
        rendered == Format(file_prefix, s.start, descriptor, doc)
    IN  IF rendered.err # "none"
        THEN Raise(s, rendered.err)
        ELSE
        LET c == CounterStep(s.counter, streamname, field)
            num == c[<<streamname, field>>]
            filename == Filename(rendered.text, streamname, field, num)
            opened == ManagerOpen(s.artifacts, OpenLabel, filename, OpenMode)
            s1 == [s EXCEPT
                    !.templated_file_prefix = rendered.text,
                    !.counter = c,
                    !.emitted = Append(@, [stream |-> streamname, field |-> field, num |-> num,
                                           descriptor |-> descriptor.uid]),
                    !.requests = Append(@, [label |-> OpenLabel, name |-> filename,
                                            mode |-> OpenMode])]
        IN  IF opened.err # "none" THEN Raise(s1, opened.err)
            ELSE
            LET tw == [file |-> filename, open |-> TRUE, frames |-> 0,
                       saved |-> SaveArgs(item.img, kwargs)]
                s2 == [s1 EXCEPT
                        !.artifacts = opened.artifacts,
                        !.tws = Append(@, tw),
                        !.tiff_writers = WritersPut(@, streamname, WriterKey(field, num),
                                                    Len(s.tws) + 1)]
            IN  IF s.capacity = 0 THEN Raise(s2, "OSError")
                ELSE [s2 EXCEPT !.tws[Len(s.tws) + 1].frames = 1, !.capacity = @ - 1]

RECURSIVE EventFieldsBackFrom(_, _, _, _)
EventFieldsBackFrom(s, descriptor, doc, i) ==
    IF i < 1 THEN s
    ELSE LET s1 == EventField(s, descriptor, doc, doc.data[i]) IN
         IF s1.err # "none" THEN s1 ELSE EventFieldsBackFrom(s1, descriptor, doc, i - 1)

\* EventFields walking doc['data'] from its last field to its first.
EventFieldsReversed(s, descriptor, doc, i) ==
    EventFieldsBackFrom(s, descriptor, doc, Len(doc.data))

RECURSIVE EventFields(_, _, _, _)
EventFields(s, descriptor, doc, i) ==
    IF i > Len(doc.data) THEN s
    ELSE LET s1 == EventField(s, descriptor, doc, doc.data[i]) IN
         IF s1.err # "none" THEN s1 ELSE EventFields(s1, descriptor, doc, i + 1)

\* Event with the descriptor fetched by .get(): an unknown reference gives a
\* descriptor without a name instead of raising.
EventLenientLookup(s, doc) ==
    IF ~VerifyFilled(doc) THEN Raise(s, "UnfilledData")
    ELSE EventFields(s,
            IF doc.descriptor \in DOMAIN s.descriptors THEN s.descriptors[doc.descriptor]
            ELSE [uid |-> doc.descriptor, name |-> "None"],
            doc, 1)

\* Event cleaning up after itself: when it fails, every writer is closed.
EventClosingOnError(s, doc) ==
    LET r == IF ~VerifyFilled(doc) THEN Raise(s, "UnfilledData")
             ELSE IF doc.descriptor \notin DOMAIN s.descriptors THEN Raise(s, "KeyError")
             ELSE EventFields(s, s.descriptors[doc.descriptor], doc, 1)
    IN  IF r.err = "none" THEN r
        ELSE [r EXCEPT !.tws = [id \in DOMAIN r.tws |-> [r.tws[id] EXCEPT !.open = FALSE]]]

\* Serializer.event
Event(s, doc) ==
    IF ~VerifyFilled(doc) THEN Raise(s, "UnfilledData")
    ELSE IF doc.descriptor \notin DOMAIN s.descriptors THEN Raise(s, "KeyError")
    ELSE EventFields(s, s.descriptors[doc.descriptor], doc, 1)

\* UnpackEventPage yielding the rows last to first.
UnpackEventPageReversed(page) ==
    LET n == Len(page.seq_num) IN
    [r \in DOMAIN page.seq_num |->
        [descriptor |-> page.descriptor, seq_num |-> page.seq_num[n + 1 - r],
         data |-> [j \in DOMAIN page.data |->
                    [field |-> page.data[j].field, img |-> page.data[j].imgs[n + 1 - r],
                     filled |-> page.data[j].filled[n + 1 - r]]]]]

\* event_model.unpack_event_page: one event per row, in row order.
UnpackEventPage(page) ==
    [r \in DOMAIN page.seq_num |->
        [descriptor |-> page.descriptor, seq_num |-> page.seq_num[r],
         data |-> [j \in DOMAIN page.data |->
                    [field |-> page.data[j].field, img |-> page.data[j].imgs[r],
                     filled |-> page.data[j].filled[r]]]]]

RECURSIVE EventLoop(_, _, _)
EventLoop(s, events, i) ==
    IF i > Len(events) THEN s
    ELSE LET s1 == Event(s, events[i]) IN
         IF s1.err # "none" THEN s1 ELSE EventLoop(s1, events, i + 1)

\* Serializer.event_page
EventPage(s, doc) == EventLoop(s, UnpackEventPage(doc), 1)

\* The order in which Serializer.close meets the writers: stream by stream
\* (in the order the streams were first stored), then key by key.
RECURSIVE CloseOrder(_)
CloseOrder(ws) ==
    IF ws = << >> THEN << >>
    ELSE LET same(e) == e.stream = ws[1].stream
             other(e) == e.stream # ws[1].stream
         IN  SelectSeq(ws, same) \o CloseOrder(SelectSeq(ws, other))

\* Serializer.close: what it calls, in order.
CloseTrace(ws) ==
    [i \in DOMAIN ws |-> [call |-> "tw.close", tw |-> CloseOrder(ws)[i].tw]]
    \o <<[call |-> "manager.close", tw |-> 0]>>

\* TiffWriter.close() on each writer of the trace.
CloseWriters(objs, trace) ==
    [id \in DOMAIN objs |->
        IF \E i \in DOMAIN trace : trace[i].call = "tw.close" /\ trace[i].tw = id
        THEN [objs[id] EXCEPT !.open = FALSE] ELSE objs[id]]

\* --------------------------------------------------------------- the driver

\* Serializer(directory, file_prefix='{uid}-', ...)
SerializerPrefix(arg) == IF Len(arg) = 0 THEN SerializerDefaultPrefix ELSE arg[1]

\* export(gen, directory, file_prefix='{start.uid}-', ...), which passes its
\* file_prefix on to Serializer.
ExportPrefix(arg) == SerializerPrefix(IF Len(arg) = 0 THEN <<ExportDefaultPrefix>> ELSE arg)

NoCall ==
    [kind |-> "init", doc |-> {}, err |-> "none", requests |-> << >>, trace |-> << >>]

Init ==
    /\ mode \in {"export", "direct"}
    /\ profile \in Profiles
    /\ \E arg \in PrefixArgs :
          file_prefix = IF mode = "export" THEN ExportPrefix(arg) ELSE SerializerPrefix(arg)
    /\ kwargs = KwargsOf(profile)
    /\ start = {}
    /\ descriptors = [u \in {} |-> u]
    /\ counter = [k \in {} |-> 0]
    /\ tiff_writers = << >>
    /\ templated_file_prefix = ""
    /\ tws = << >>
    /\ artifacts = [l \in {} |-> << >>]
    /\ manager_closed = FALSE
    /\ capacity = CapacityOf(profile)
    /\ pc = "running"
    /\ nDocs = 0
    /\ last = NoCall
    /\ emitted = << >>
    /\ eligible = << >>
    /\ nRaised = 0
    /\ nStarts = 0
    /\ firstStart = << >>
    /\ seen = << >>
    /\ pending = "none"
    /\ outcome = "none"
    /\ nClosed = 0

\* The stream a descriptor reference stands for when the document is fed.
StreamOf(uid) == IF uid \in DOMAIN descriptors THEN descriptors[uid].name ELSE "?"

\* The 2-dimensional cells of row r of an event page, in column order.
RowImages(page, r) ==
    LET is2d(col) == Len(col.imgs[r]) = 2
        cols == SelectSeq(page.data, is2d)
    IN  [j \in DOMAIN cols |-> [stream |-> StreamOf(page.descriptor), field |-> cols[j].field]]

RECURSIVE PageImages(_, _)
PageImages(page, r) ==
    IF r > Len(page.seq_num) THEN << >> ELSE RowImages(page, r) \o PageImages(page, r + 1)

\* The 2-dimensional fields a document holds, in arrival order: read off the
\* document as it is fed, whatever the handler then does with it.
Eligible(kind, doc) ==
    CASE kind = "event" ->
            LET is2d(item) == Len(item.img) = 2
                items == SelectSeq(doc.data, is2d)
            IN  [j \in DOMAIN items |->
                    [stream |-> StreamOf(doc.descriptor), field |-> items[j].field]]
      [] kind = "event_page" -> PageImages(doc, 1)
      [] OTHER -> << >>

\* The caller may make n more calls of the router: a document counts one per
\* row, a read of Serializer.artifacts one.
CanFeed(n) ==
    /\ pc = "running"
    /\ nDocs + Len(seen) + n <= DocLimit(profile)

\* serializer(name, doc) returned or raised s.err: in export an exception
\* leaves the with block; a direct caller may go on.
Called(kind, doc, n, s) ==
    /\ start' = s.start
    /\ descriptors' = s.descriptors
    /\ counter' = s.counter
    /\ tiff_writers' = s.tiff_writers
    /\ templated_file_prefix' = s.templated_file_prefix
    /\ tws' = s.tws
    /\ artifacts' = s.artifacts
    /\ capacity' = s.capacity
    /\ emitted' = s.emitted
    /\ eligible' = eligible \o Eligible(kind, doc)
    /\ nRaised' = IF s.err # "none" THEN nRaised + 1 ELSE nRaised
    /\ last' = [kind |-> kind, doc |-> doc, err |-> s.err, requests |-> s.requests,
                trace |-> << >>]
    /\ pc' = IF s.err # "none" /\ mode = "export" THEN "failed" ELSE "running"
    /\ pending' = IF mode = "export" THEN s.err ELSE "none"
    /\ nDocs' = nDocs + n
    /\ UNCHANGED <<config, manager_closed, seen, outcome, nClosed>>

OnStart ==
    /\ CanFeed(1)
    /\ \E doc \in StartDocsOf(profile) :
          /\ Called("start", doc, 1, Start(Cur, doc))
          /\ nStarts' = nStarts + 1
          /\ firstStart' = IF nStarts = 0 THEN <<doc>> ELSE firstStart

OnDescriptor ==
    /\ CanFeed(1)
    /\ \E doc \in DescriptorDocsOf(profile) :
          Called("descriptor", doc, 1, Descriptor(Cur, doc))
    /\ UNCHANGED <<nStarts, firstStart>>

OnEvent ==
    /\ CanFeed(1)
    /\ \E doc \in EventDocsOf(profile) :
          Called("event", doc, 1, Event(Cur, doc))
    /\ UNCHANGED <<nStarts, firstStart>>

OnEventPage ==
    /\ profile = "wide"
    /\ \E doc \in EventPageDocs :
          /\ CanFeed(Len(doc.seq_num))
          /\ Called("event_page", doc, Len(doc.seq_num), EventPage(Cur, doc))
    /\ UNCHANGED <<nStarts, firstStart>>

\* Serializer.close: called by the direct caller, or by __exit__ when export's
\* with block is left (the stream ended, or a handler raised).
Close ==
    /\ pc \in {"running", "failed"}
    /\ LET trace == CloseTrace(tiff_writers) IN
          /\ tws' = CloseWriters(tws, trace)
          /\ last' = [kind |-> "close", doc |-> {}, err |-> "none", requests |-> << >>,
                      trace |-> trace]
    /\ manager_closed' = TRUE
    /\ pc' = "closed"
    /\ nClosed' = nClosed + 1
    /\ UNCHANGED <<config, router, artifacts, capacity, nDocs, emitted, eligible, nRaised,
                   nStarts, firstStart, seen, pending, outcome>>

\* Artifacts returning a snapshot taken when the Serializer was constructed.
ArtifactsSnapshot(art) == [l \in {} |-> << >>]

\* Serializer.artifacts: the manager's registry as it is when the property is
\* read.
Artifacts(art) == art

\* The caller of a Serializer reads serializer.artifacts, before or after
\* close.
OnArtifacts ==
    /\ mode = "direct"
    /\ pc \in {"running", "closed"}
    /\ Len(seen) < ReadLimit(profile)
    /\ pc = "running" => CanFeed(1)
    /\ seen' = Append(seen, [docs |-> nDocs, closed |-> pc = "closed",
                             content |-> Artifacts(artifacts)])
    /\ UNCHANGED <<config, router, world, history, pending, outcome, nClosed>>

\* ExportEnd with an __exit__ that suppresses the exception: export returns
\* serializer.artifacts whatever happened in the with block.
ExportEndSuppressing ==
    /\ mode = "export"
    /\ pc = "closed"
    /\ outcome = "none"
    /\ outcome' = "returned"
    /\ seen' = Append(seen, [docs |-> nDocs, closed |-> TRUE,
                             content |-> Artifacts(artifacts)])
    /\ UNCHANGED <<config, router, world, history, pending, nClosed>>

\* export after its with block: the exception that left the block goes on to
\* the caller; without one, export returns serializer.artifacts.
ExportEnd ==
    /\ mode = "export"
    /\ pc = "closed"
    /\ outcome = "none"
    /\ IF pending = "none"
       THEN /\ outcome' = "returned"
            /\ seen' = Append(seen, [docs |-> nDocs, closed |-> TRUE,
                                     content |-> Artifacts(artifacts)])
       ELSE /\ outcome' = pending
            /\ seen' = seen
    /\ UNCHANGED <<config, router, world, history, pending, nClosed>>

Next == OnStart \/ OnDescriptor \/ OnEvent \/ OnEventPage \/ Close \/ OnArtifacts \/ ExportEnd

Spec == Init /\ [][Next]_vars

\* export alone.  It runs on: the with block is left when gen is exhausted or
\* a handler raises, which runs __exit__ and so close, and then export returns
\* or the exception goes on.
ExportInit == Init /\ mode = "export"

ExportNext == OnStart \/ OnDescriptor \/ OnEvent \/ OnEventPage \/ Close \/ ExportEnd

ExportSpec == ExportInit /\ [][ExportNext]_vars /\ WF_vars(Close) /\ WF_vars(ExportEnd)

\* ============================================================== properties

Key(e) == <<e.stream, e.field>>

\* How many of the first i - 1 entries of a history have the key of entry i.
Earlier(hist, i) == Cardinality({j \in 1..(i - 1) : Key(hist[j]) = Key(hist[i])})

Occurrences(hist, k) == Cardinality({i \in DOMAIN hist : Key(hist[i]) = k})

\* C1: for every key (stream name, field name) the counters given to its
\* eligible occurrences are 0, 1, ..., N-1 in arrival order, however the
\* occurrences of other keys are interleaved; the counter table holds N-1 for
\* the key (nothing when N = 0); and while no call has raised, N is the number
\* of 2-dimensional occurrences of the key in the documents fed.
C1_CountersContiguous ==
    /\ \A i \in DOMAIN emitted : emitted[i].num = Earlier(emitted, i)
    /\ \A sn \in StreamNames, f \in FieldNames :
          CounterGet(counter, sn, f) =
             (IF Occurrences(emitted, <<sn, f>>) = 0 THEN {}
              ELSE {Occurrences(emitted, <<sn, f>>) - 1})
    /\ nRaised = 0 =>
          \A sn \in StreamNames, f \in FieldNames :
             Occurrences(emitted, <<sn, f>>) = Occurrences(eligible, <<sn, f>>)

\* C1's case: a key got 0 and then 1 (not 0 again) with another key's
\* occurrence between the two, and went on to 2.
C1_Witness ==
    \E i, j, k, l \in DOMAIN emitted :
        /\ i < j /\ j < k /\ k < l
        /\ Key(emitted[i]) = Key(emitted[k]) /\ Key(emitted[k]) = Key(emitted[l])
        /\ Key(emitted[j]) # Key(emitted[i])
        /\ emitted[i].num = 0 /\ emitted[k].num = 1 /\ emitted[l].num = 2

\* The step is a call of the handler of this kind of document.
IsCall(kind) == nDocs' > nDocs /\ last'.kind = kind

\* C2: once a start document has been processed, every later start call
\* raises and leaves the stored run metadata equal to the first start
\* document, whatever that document holds.
C2_SecondStartFails ==
    (last.kind = "start" /\ nStarts >= 2) =>
        (last.err # "none" /\ start = firstStart[1])

\* C3: an event processed before any start document raises, opens no
\* resource and advances no counter, whatever its fields and whatever the
\* file_prefix template.
C3_EventBeforeStartFails ==
    [][(IsCall("event") /\ nStarts = 0) =>
          (last'.err # "none" /\ last'.requests = << >>
           /\ artifacts' = artifacts /\ counter' = counter)]_vars

\* C4: an event (alone or as a row of a page) whose descriptor reference is
\* not a registered descriptor raises before anything is opened: no request
\* reaches the manager, and the counter table, the writer table, the writers
\* and the artifact registry are unchanged.
C4_UnknownDescriptor ==
    [][((IsCall("event") \/ IsCall("event_page"))
        /\ last'.doc.descriptor \notin DOMAIN descriptors) =>
          (/\ last'.err # "none"
           /\ last'.requests = << >>
           /\ counter' = counter
           /\ tiff_writers' = tiff_writers
           /\ tws' = tws
           /\ artifacts' = artifacts)]_vars

\* C4's case: a filled event with an image was sent to a router that holds
\* artifacts and another descriptor, but not the one the event names.
C4_Witness ==
    /\ last.kind = "event"
    /\ last.doc.descriptor \notin DOMAIN descriptors
    /\ DOMAIN descriptors # {}
    /\ \A i \in DOMAIN last.doc.data : last.doc.data[i].filled
    /\ \E i \in DOMAIN last.doc.data : Len(last.doc.data[i].img) = 2
    /\ last.err = "KeyError"
    /\ DOMAIN artifacts # {}

\* C5: a field whose value does not have exactly 2 dimensions is skipped:
\* the counters of its name stay as they were (for every stream), a call makes
\* at most one request and one writer per 2-dimensional field, and an event
\* with no 2-dimensional field leaves the router, the writers and the manager
\* unchanged, raising nothing if it is filled and names a known descriptor.
C5_NonImageIgnored ==
    [][IsCall("event") =>
          LET data == last'.doc.data
              images == {i \in DOMAIN data : Len(data[i].img) = 2}
          IN  /\ \A i \in DOMAIN data \ images : \A sn \in StreamNames :
                    CounterGet(counter', sn, data[i].field)
                        = CounterGet(counter, sn, data[i].field)
              /\ Len(last'.requests) <= Cardinality(images)
              /\ Len(tws') - Len(tws) <= Cardinality(images)
              /\ images = {} =>
                    /\ UNCHANGED <<router, world, emitted>>
                    /\ last'.requests = << >>
                    /\ ((\A i \in DOMAIN data : data[i].filled)
                        /\ last'.doc.descriptor \in DOMAIN descriptors)
                          => last'.err = "none"]_vars

\* C5's case: an event holding only a 3-dimensional value for a key that
\* already has a counter was processed without error.
C5_Witness ==
    /\ last.kind = "event"
    /\ last.err = "none"
    /\ Len(last.doc.data) = 1
    /\ Len(last.doc.data[1].img) = 3
    /\ last.doc.descriptor \in DOMAIN descriptors
    /\ <<descriptors[last.doc.descriptor].name, last.doc.data[1].field>> \in DOMAIN counter

\* Base 10 without padding, written out.
Decimal ==
    <<"0", "1", "2", "3", "4", "5", "6", "7", "8", "9", "10", "11", "12", "13", "14", "15">>

\* What each file_prefix of the model renders to when it renders: the run's
\* uid and '-', the stream name and '_', or the literal text.  The two
\* default templates render to nothing.
Rendered(stream) ==
    CASE file_prefix = ItemPrefix -> Lookup(start, "uid") \o "-"
      [] file_prefix = DescPrefix -> stream \o "_"
      [] file_prefix = LitPrefix -> "scan_"
      [] OTHER -> "(no rendering)"

NameOf(e, num) ==
    Rendered(e.stream) \o e.stream \o "-" \o e.field \o "-" \o Decimal[num + 1] \o ".tiff"

\* C6: every request an event or an event page makes of the manager is for
\* label stream_data, mode xb (exclusive creation) and the name
\* <rendered prefix><stream name>-<field name>-<counter>.tiff: the stream name
\* is the name of the descriptor the event references, the counter is the one
\* the key holds when the request is made, in base 10 without padding, and the
\* prefix is the template rendered against the start document and that
\* descriptor; self._templated_file_prefix holds that rendering.
C6_OpenRequests ==
    last.kind \in {"event", "event_page"} =>
        LET want == Eligible(last.kind, last.doc)
            reqs == last.requests
        IN  /\ Len(reqs) <= Len(want)
            /\ \A i \in DOMAIN reqs :
                  LET later == Cardinality({j \in (i + 1)..Len(reqs) :
                                               Key(want[j]) = Key(want[i])})
                  IN  reqs[i] = [label |-> "stream_data", mode |-> "xb",
                                 name |-> NameOf(want[i], counter[Key(want[i])] - later)]
            /\ reqs # << >> => templated_file_prefix = Rendered(want[1].stream)

\* C6's case: the eleventh image of a key was opened as ...-10.tiff.
C6_Witness ==
    /\ last.kind = "event"
    /\ last.err = "none"
    /\ last.requests =
          <<[label |-> "stream_data", mode |-> "xb", name |-> "abc-primary-det-10.tiff"]>>
    /\ counter[<<"primary", "det">>] = 10

StreamData == IF "stream_data" \in DOMAIN artifacts THEN artifacts["stream_data"] ELSE << >>

\* C7: after a stream in which no call raised has been fed and close has
\* run (through export, or by the caller), the registry holds only the label
\* stream_data, and under it exactly one name per 2-dimensional field
\* occurrence of the documents fed, in arrival order (then field order within
\* the event), each the name of its key and of its rank among the key's
\* occurrences, with no name twice.
C7_ArtifactsInOrder ==
    (pc = "closed" /\ nRaised = 0) =>
        /\ DOMAIN artifacts \subseteq {"stream_data"}
        /\ Len(StreamData) = Len(eligible)
        /\ \A i \in DOMAIN StreamData :
              StreamData[i] = NameOf(eligible[i], Earlier(eligible, i))
        /\ \A i, j \in DOMAIN StreamData : i # j => StreamData[i] # StreamData[j]

\* C7's case: start uid=abc, descriptor name=primary, two events with the 2D
\* field det, driven through export with '{start[uid]}-'.
C7_Witness ==
    /\ mode = "export"
    /\ pc = "closed"
    /\ nRaised = 0
    /\ nDocs = 4
    /\ StreamData = <<"abc-primary-det-0.tiff", "abc-primary-det-1.tiff">>

\* C8: with no file_prefix given, the default template renders to the run's
\* uid followed by '-' and every name requested begins with it, through export
\* and on a Serializer constructed directly.
C8_DefaultPrefixRendersUid ==
    (/\ file_prefix \in {SerializerDefaultPrefix, ExportDefaultPrefix}
     /\ last.kind = "event"
     /\ "uid" \in Keys(start)
     /\ last.doc.descriptor \in DOMAIN descriptors
     /\ \A i \in DOMAIN last.doc.data : last.doc.data[i].filled
     /\ \E i \in DOMAIN last.doc.data : Len(last.doc.data[i].img) = 2) =>
        /\ templated_file_prefix = Lookup(start, "uid") \o "-"
        /\ \A i \in DOMAIN last.requests :
              \E sn \in StreamNames, f \in FieldNames, n \in DOMAIN Decimal :
                 last.requests[i].name =
                    (Lookup(start, "uid") \o "-") \o sn \o "-" \o f \o "-" \o Decimal[n]
                        \o ".tiff"

\* Row r of an event page as an event of its own.
RowEvent(page, r) ==
    [descriptor |-> page.descriptor, seq_num |-> page.seq_num[r],
     data |-> [j \in DOMAIN page.data |->
                [field |-> page.data[j].field, img |-> page.data[j].imgs[r],
                 filled |-> page.data[j].filled[r]]]]

\* The rows of a page sent to Serializer.event one by one, from row r on, until
\* one raises.
RECURSIVE RowByRow(_, _, _)
RowByRow(s, page, r) ==
    IF r > Len(page.seq_num) THEN s
    ELSE LET s1 == Event(s, RowEvent(page, r)) IN
         IF s1.err # "none" THEN s1 ELSE RowByRow(s1, page, r + 1)

\* C9: an event page does what its rows do as events of their own, in row
\* order: the same counter table, writer table, writers, artifacts, requests
\* and rendered prefix, and the same error; the page stops at the first row
\* that raises, keeping what the rows before it did.
C9_PageIsRowByRow ==
    [][IsCall("event_page") =>
          LET w == RowByRow(Cur, last'.doc, 1) IN
              /\ counter' = w.counter
              /\ tiff_writers' = w.tiff_writers
              /\ tws' = w.tws
              /\ artifacts' = w.artifacts
              /\ templated_file_prefix' = w.templated_file_prefix
              /\ last'.requests = w.requests
              /\ last'.err = w.err
              /\ UNCHANGED <<start, descriptors>>]_vars

\* C9's case: a page of two rows whose first row was written and whose second
\* row raised.
C9_Witness ==
    /\ last.kind = "event_page"
    /\ Len(last.doc.seq_num) = 2
    /\ last.err = "UnfilledData"
    /\ Len(last.requests) = 1
    /\ Len(tws) >= 1

\* C10: until close, every writer constructed is open and the manager is
\* not closed (no start, descriptor, event or event_page call closes a
\* writer); close calls close() on every writer constructed since
\* construction and, after the last of them, once on the manager, and leaves
\* no writer open.
C10_CloseOrder ==
    /\ pc # "closed" => (~manager_closed /\ \A id \in DOMAIN tws : tws[id].open)
    /\ pc = "closed" =>
          /\ last.kind = "close"
          /\ manager_closed
          /\ LET t == last.trace IN
                /\ t # << >>
                /\ t[Len(t)].call = "manager.close"
                /\ \A i \in 1..(Len(t) - 1) : t[i].call = "tw.close"
                /\ \A id \in DOMAIN tws :
                      /\ ~tws[id].open
                      /\ \E i \in 1..(Len(t) - 1) : t[i].tw = id

\* C10's case: close ran on a router holding three writers of two streams.
C10_Witness ==
    /\ pc = "closed"
    /\ Len(tws) >= 3
    /\ \E i, j \in DOMAIN tiff_writers : tiff_writers[i].stream # tiff_writers[j].stream

\* The names a registry holds under stream_data.
Names(art) == IF "stream_data" \in DOMAIN art THEN art["stream_data"] ELSE << >>

\* The step is a read of serializer.artifacts (by the caller, or by export
\* for its return value).
IsRead == Len(seen') = Len(seen) + 1

\* C11: a read of artifacts returns the manager's registry as it is at that
\* moment and changes nothing: reads with no document processed between them
\* returned the same content (with or without a close between them), a later
\* read holds what an earlier one held plus what was opened since, and a read
\* after close lists every resource opened before close.
C11_ArtifactsLive ==
    /\ [](\A i \in DOMAIN seen :
            /\ seen[i].docs = nDocs => seen[i].content = artifacts
            /\ seen[i].closed => Len(Names(seen[i].content)) = Len(tws)
            /\ \A j \in DOMAIN seen :
                  /\ seen[i].docs = seen[j].docs => seen[i].content = seen[j].content
                  /\ i < j =>
                        SubSeq(Names(seen[j].content), 1, Len(Names(seen[i].content)))
                            = Names(seen[i].content))
    /\ [][IsRead =>
            /\ seen'[Len(seen')].content = artifacts
            /\ Len(Names(seen'[Len(seen')].content)) = Len(tws)
            /\ UNCHANGED <<config, router, world, history>>]_vars

\* C11's case: two reads in a row returned the same non-empty registry, and
\* a third, after another event and close, returned it with one name more.
C11_Witness ==
    /\ Len(seen) = 3
    /\ seen[1].docs = seen[2].docs
    /\ Names(seen[1].content) # << >>
    /\ seen[2].content = seen[1].content
    /\ seen[3].closed
    /\ Len(Names(seen[3].content)) = Len(Names(seen[1].content)) + 1

\* C12: on a router whose manager starts empty, the occurrences numbered so
\* far (distinct triples of stream name, field name and counter) have
\* pairwise distinct names, and no call fails on a name the manager already
\* holds.
C12_NamesNeverCollide ==
    /\ \A i, j \in DOMAIN emitted :
          i # j => NameOf(emitted[i], emitted[i].num) # NameOf(emitted[j], emitted[j].num)
    /\ last.err # "FileExistsError"

\* C13: every tw.save call got the image as its only positional argument
\* and the options given to the Serializer, each name with its value, as
\* named arguments.
C13_OptionsForwarded ==
    \A id \in DOMAIN tws :
        /\ Len(tws[id].saved.positional) = 1
        /\ tws[id].saved.named = {kwargs[i] : i \in DOMAIN kwargs}

\* C14: an event with a field that is not filled raises the data-integrity
\* error, also when its descriptor is unknown and when another of its fields
\* is a 2-dimensional image; it makes no request of the manager and leaves
\* the counters, the writers, the artifacts and the rest of the router as they
\* were.
C14_UnfilledFailsFirst ==
    [][(IsCall("event") /\ \E i \in DOMAIN last'.doc.data : ~last'.doc.data[i].filled) =>
          /\ last'.err = "UnfilledData"
          /\ last'.requests = << >>
          /\ UNCHANGED <<router, world, emitted>>]_vars

\* C14's case: an event of an unknown descriptor with an unfilled field and
\* a 2-dimensional one was refused for the unfilled field, on a router that
\* has written before.
C14_Witness ==
    /\ last.kind = "event"
    /\ last.err = "UnfilledData"
    /\ last.doc.descriptor \notin DOMAIN descriptors
    /\ \E i, j \in DOMAIN last.doc.data :
          ~last.doc.data[i].filled /\ Len(last.doc.data[j].img) = 2
    /\ Len(tws) >= 1

\* C15: an event or an event page that raises keeps what it did before the
\* failure: each request the manager granted (all the call made, but the last
\* one when the call failed on a name the manager holds) left a writer, open
\* and stored, and a name in the registry, after those that were there, which
\* are untouched; nothing is closed; and the exception goes to the caller: out
\* of export's with block when export drives the router.
C15_NoRollback ==
    [][((IsCall("event") \/ IsCall("event_page")) /\ last'.err # "none") =>
          LET reqs == last'.requests
              granted == IF last'.err = "FileExistsError" THEN Len(reqs) - 1 ELSE Len(reqs)
          IN  /\ Len(tws') = Len(tws) + granted
              /\ SubSeq(tws', 1, Len(tws)) = tws
              /\ \A id \in DOMAIN tws' : tws'[id].open
              /\ \A k \in 1..granted : tws'[Len(tws) + k].file = reqs[k].name
              /\ Len(tiff_writers') = Len(tiff_writers) + granted
              /\ SubSeq(tiff_writers', 1, Len(tiff_writers)) = tiff_writers
              /\ \A k \in 1..granted :
                    \E i \in DOMAIN tiff_writers' : tiff_writers'[i].tw = Len(tws) + k
              /\ Names(artifacts') =
                    Names(artifacts) \o [k \in 1..granted |-> reqs[k].name]
              /\ ~manager_closed'
              /\ nRaised' = nRaised + 1
              /\ mode = "export" => (pending' = last'.err /\ pc' = "failed")
              /\ mode = "direct" => pc' = "running"]_vars

\* C15's case: an event of two images wrote the first and failed writing
\* the second; both writers are open and both names registered.
C15_Witness ==
    /\ last.kind = "event"
    /\ last.err = "OSError"
    /\ Len(last.requests) = 2
    /\ Len(tws) >= 2
    /\ tws[Len(tws) - 1].frames = 1
    /\ tws[Len(tws)].frames = 0
    /\ tws[Len(tws) - 1].open /\ tws[Len(tws)].open
    /\ Len(Names(artifacts)) = Len(tws)

\* C16: a descriptor call never raises, whatever names the registered
\* descriptors have: it stores the document under its uid and touches nothing
\* else.  Two occurrences of a field numbered through different descriptors
\* of one stream name took their numbers from one sequence: the later one's
\* number is the earlier one's plus the occurrences of the key from the
\* earlier one on, whichever descriptor each came through, so the two names
\* differ.
C16_SharedStreamCounter ==
    /\ [](\A i, j \in DOMAIN emitted :
            (/\ i < j
             /\ Key(emitted[i]) = Key(emitted[j])
             /\ emitted[i].descriptor # emitted[j].descriptor) =>
                /\ emitted[j].num = emitted[i].num
                      + Cardinality({k \in (i + 1)..j : Key(emitted[k]) = Key(emitted[i])})
                /\ NameOf(emitted[i], emitted[i].num) # NameOf(emitted[j], emitted[j].num))
    /\ [][IsCall("descriptor") =>
            /\ last'.err = "none"
            /\ DOMAIN descriptors' = DOMAIN descriptors \cup {last'.doc.uid}
            /\ descriptors'[last'.doc.uid] = last'.doc
            /\ \A u \in DOMAIN descriptors \ {last'.doc.uid} : descriptors'[u] = descriptors[u]
            /\ UNCHANGED <<start, counter, tiff_writers, templated_file_prefix, world>>]_vars

\* C16's case: descriptors d1 and d2 both name the stream primary, and
\* images of det came through d1, then d2, then d1 again: numbers 0, 1, 2.
C16_Witness ==
    /\ "d1" \in DOMAIN descriptors /\ "d2" \in DOMAIN descriptors
    /\ descriptors["d1"].name = "primary" /\ descriptors["d2"].name = "primary"
    /\ nRaised = 0
    /\ Len(emitted) = 3
    /\ \A i \in 1..3 : Key(emitted[i]) = <<"primary", "det">> /\ emitted[i].num = i - 1
    /\ emitted[1].descriptor = "d1" /\ emitted[2].descriptor = "d2"
    /\ emitted[3].descriptor = "d1"
    /\ Len(Names(artifacts)) = 3

\* The writers stored for a key: the entries of its stream whose key is the
\* field name, '-' and a number.
WritersOf(sn, f) ==
    {i \in DOMAIN tiff_writers :
        /\ tiff_writers[i].stream = sn
        /\ \E n \in 0..Len(emitted) : tiff_writers[i].key = f \o "-" \o Decimal[n + 1]}

\* C17: in every state, after failed calls too, each key has counter + 1
\* writers stored (none without a counter) and as many resources opened, every
\* writer constructed is stored once, under one key, and every resource
\* registered has its writer.
C17_WritersMatchCounters ==
    /\ \A sn \in StreamNames, f \in FieldNames :
          LET want == IF <<sn, f>> \in DOMAIN counter THEN counter[<<sn, f>>] + 1 ELSE 0
          IN  /\ Cardinality(WritersOf(sn, f)) = want
              /\ Cardinality({tws[tiff_writers[i].tw].file : i \in WritersOf(sn, f)}) = want
    /\ Len(tiff_writers) = Len(tws)
    /\ \A i, j \in DOMAIN tiff_writers :
          i # j => tiff_writers[i].tw # tiff_writers[j].tw
    /\ Len(Names(artifacts)) = Len(tws)

\* C18: a run through export ends: close is called once, never twice, after
\* the last document fed or as the very next step after the first call that
\* raised, with no document fed in between or afterwards and the router left
\* as the failing call left it; when export ends every writer constructed is
\* closed and the manager too; and export returns the registry when no call
\* raised, else it raises the exception of the one call that raised.
C18_ExportClosesOnce ==
    /\ (mode = "export") ~> (outcome # "none")
    /\ [](mode = "export" =>
            /\ nClosed = (IF pc = "closed" THEN 1 ELSE 0)
            /\ nRaised <= 1
            /\ pc = "failed" <=> (nRaised = 1 /\ nClosed = 0)
            /\ nRaised = 1 => (pending # "none" /\ (pc = "failed" => last.err = pending))
            /\ nRaised = 0 => pending = "none"
            /\ outcome # "none" =>
                  /\ nClosed = 1
                  /\ manager_closed
                  /\ \A id \in DOMAIN tws : ~tws[id].open
                  /\ IF nRaised = 0
                     THEN outcome = "returned"
                          /\ seen = <<[docs |-> nDocs, closed |-> TRUE, content |-> artifacts]>>
                     ELSE outcome = pending /\ seen = << >>)
    /\ [][(mode = "export" /\ pc = "failed") =>
            /\ pc' = "closed"
            /\ nClosed' = nClosed + 1
            /\ last'.kind = "close"
            /\ \A id \in DOMAIN tws : ~tws'[id].open
            /\ UNCHANGED <<router, artifacts, nDocs, pending>>]_vars
    /\ [][(mode = "export" /\ pc = "closed") =>
            UNCHANGED <<router, world, nDocs, nClosed, pending>>]_vars

\* C18's case: export raised the error of an event that failed after two
\* writers had been opened, and both are closed.
C18_Witness ==
    /\ mode = "export"
    /\ outcome = "FileExistsError"
    /\ nClosed = 1
    /\ Len(tws) >= 2
    /\ \A id \in DOMAIN tws : ~tws[id].open
    /\ seen = << >>

====
